---- MODULE Spec2Model ----
(***************************************************************************)
(* Model of the seekable-archive writer of src/compress.c:                 *)
(* nio_archive_writer_open, nio_archive_write, end_frame and               *)
(* nio_archive_writer_close, with the zstd streaming compressor, the       *)
(* frame log and the output file as the collaborators the code calls.      *)
(*                                                                         *)
(* Byte buffers are kept run-length encoded: a stream is a sequence of     *)
(* runs [tag, lo, hi] standing for the bytes (tag,lo), ..., (tag,hi).      *)
(* Streams are always normalised (adjacent runs that continue each other   *)
(* are merged), so two streams are equal exactly when they hold the same   *)
(* bytes in the same order.  The payload of the write call number k of     *)
(* length L is the bytes (k,1) .. (k,L).                                   *)
(***************************************************************************)
EXTENDS Integers, Sequences, FiniteSets, TLC

\* ------------------------------------------------------------------ bounds
NThreads  == 2      \* threads calling nio_archive_write on the one session
MaxWrites == 3      \* write calls per session
MaxFaults == 1      \* injected failures (allocation, compressor, I/O) per session
BlockSize == 512    \* input the compressor buffers before it compresses a block
OutSize   == 300    \* ZSTD_CStreamOutSize(): capacity of the output buffers
SeekBufLen == 2     \* capacity of close's seek-table buffer, in table tokens

Threads == 1..NThreads
Main    == 0                         \* the thread that calls open and close
Lens    == {0, 10, 500, 600}         \* payload lengths a write call may pass
Mins    == {0, 10, 1024}             \* min_frame_size values passed to open

Min(a, b) == IF a < b THEN a ELSE b

\* ----------------------------------------------------------------- streams
HdrTag == -1        \* frame header produced by the compressor
EndTag == -2        \* end-of-frame marker produced by the compressor
TblTag == -3        \* seek-table bytes produced by the frame log

Run(t, lo, hi) == [tag |-> t, lo |-> lo, hi |-> hi]
RunLen(r) == r.hi - r.lo + 1

RECURSIVE SLen(_)
SLen(s) == IF s = <<>> THEN 0 ELSE RunLen(Head(s)) + SLen(Tail(s))

\* concatenation, merging the two runs that meet when one continues the other
SCat(a, b) ==
    IF a = <<>> THEN b
    ELSE IF b = <<>> THEN a
    ELSE LET x == a[Len(a)]
             y == b[1]
         IN IF x.tag = y.tag /\ x.hi + 1 = y.lo
            THEN SubSeq(a, 1, Len(a) - 1) \o <<Run(x.tag, x.lo, y.hi)>> \o Tail(b)
            ELSE a \o b

\* the first n bytes of s
RECURSIVE STake(_, _)
STake(s, n) ==
    IF n <= 0 \/ s = <<>> THEN <<>>
    ELSE LET r == Head(s)
         IN IF RunLen(r) <= n
            THEN <<r>> \o STake(Tail(s), n - RunLen(r))
            ELSE <<Run(r.tag, r.lo, r.lo + n - 1)>>

\* s without its first n bytes
RECURSIVE SDrop(_, _)
SDrop(s, n) ==
    IF n <= 0 \/ s = <<>> THEN s
    ELSE LET r == Head(s)
         IN IF RunLen(r) <= n
            THEN SDrop(Tail(s), n - RunLen(r))
            ELSE <<Run(r.tag, r.lo + n, r.hi)>> \o Tail(s)

\* the buffer a caller passes to write call number id: len distinct bytes
Payload(id, len) == IF len = 0 THEN <<>> ELSE <<Run(id, 1, len)>>

\* -------------------------------------------------------------- compressor
\* State of the ZSTD_CCtx as the writer can observe it: the frame is open
\* once a compressStream2 call started it; cin is input accepted but not yet
\* compressed; cout is compressed output not yet handed to the caller; hdr
\* says the frame header was produced; ended says the end-of-frame marker
\* was produced.  Compression keeps the order of the bytes.
CCtxInit == [open |-> FALSE, hdr |-> FALSE, ended |-> FALSE,
             cin |-> <<>>, cout |-> <<>>]

CompressBlock(c, last) ==
    [c EXCEPT !.cout = SCat(SCat(IF c.hdr THEN <<>> ELSE <<Run(HdrTag, 0, 0)>>,
                                 c.cin),
                            IF last THEN <<Run(EndTag, 0, 0)>> ELSE <<>>),
              !.cin = <<>>,
              !.hdr = TRUE,
              !.ended = last]

\* One call ZSTD_compressStream2(cctx, &buffout, &buffin, endOp): flush what
\* is compressed into the output buffer while it has room, load input up to
\* a block, compress a full block (or, on ZSTD_e_end, the last block), and
\* repeat.  Returns the new context, the output produced by the call, the
\* input not consumed and the value returned (0: nothing left to flush).
\* the one element of a set of one element
Only(S) == CHOOSE x \in S : TRUE

\* move compressed output into the output buffer while it has room
FlushOut(c, out) ==
    LET n == Min(OutSize - SLen(out), SLen(c.cout))
    IN [c |-> [c EXCEPT !.cout = SDrop(c.cout, n)],
        out |-> SCat(out, STake(c.cout, n))]

\* load input into the current block up to the block size
LoadIn(c, inp) ==
    LET k == Min(SLen(inp), BlockSize - SLen(c.cin))
    IN [c |-> [c EXCEPT !.cin = SCat(c.cin, STake(inp, k))],
        inp |-> SDrop(inp, k)]

RECURSIVE CStreamLoop(_, _, _, _)
CStreamLoop(c, inp, out, endOp) ==
    IF c.cout # <<>>
    THEN Only({ IF f.c.cout # <<>>
                THEN [c |-> f.c, out |-> f.out, inp |-> inp,
                      rem |-> SLen(f.c.cout)]
                ELSE CStreamLoop(f.c, inp, f.out, endOp)
                : f \in {FlushOut(c, out)} })
    ELSE IF c.ended
    THEN [c |-> CCtxInit, out |-> out, inp |-> inp, rem |-> 0]
    ELSE Only({ IF endOp = "end" /\ l.inp = <<>>
                THEN CStreamLoop(CompressBlock(l.c, TRUE), l.inp, out, endOp)
                ELSE IF SLen(l.c.cin) = BlockSize
                THEN CStreamLoop(CompressBlock(l.c, FALSE), l.inp, out, endOp)
                ELSE [c |-> l.c, out |-> out, inp |-> l.inp,
                      rem |-> SLen(l.c.cin)]
                : l \in {LoadIn(c, inp)} })

CompressStream2(c, inp, endOp) ==
    CStreamLoop([c EXCEPT !.open = TRUE], inp, <<>>, endOp)

\* ------------------------------------------------------------------- state
VARIABLES
    mpc,             \* position of the main thread in open / close
    wpc,             \* position of each writer thread in nio_archive_write
    wid,             \* call number of each thread's current write call
    wbuf,            \* buf of each thread's current write call
    wlen,            \* len of each thread's current write call
    wpos,            \* buffin.pos of each thread's current write call
    min_frame_size,  \* writer->min_frame_size
    frame_uc,        \* writer->frame_uc
    frame_cm,        \* writer->frame_cm
    fl,              \* writer->fl: the frame log, a sequence of descriptors
    fout,            \* the bytes written to writer->fout
    cctx,            \* writer->cctx
    lock,            \* writer->lock: 0 when free, else the holding thread
    held,            \* resources acquired and not released
    rtrace,          \* acquisitions and releases of resources, in order
    tpos,            \* seek-table bytes already serialised by close
    faults,          \* failures injected so far
    ncalls,          \* write calls started so far
    lockOrder,       \* write calls in the order they acquired the lock
    accepted,        \* payloads of the write calls that returned success
    callLen,         \* len of every write call started, by call number
    reported,        \* whether a write call has returned failure
    nEndFrame        \* executions of end_frame started so far

vars == <<mpc, wpc, wid, wbuf, wlen, wpos, min_frame_size, frame_uc, frame_cm,
          fl, fout, cctx, lock, held, rtrace, tpos, faults, ncalls, lockOrder,
          accepted, callLen, reported, nEndFrame>>

writerVars == <<wpc, wid, wbuf, wlen, wpos>>
frameVars  == <<frame_uc, frame_cm, fl, fout, cctx>>
resVars    == <<held, rtrace>>
ghostVars  == <<ncalls, lockOrder, accepted, callLen, reported, nEndFrame>>

Init ==
    /\ mpc = "o_writer"
    /\ wpc = [t \in Threads |-> "idle"]
    /\ wid = [t \in Threads |-> 0]
    /\ wbuf = [t \in Threads |-> <<>>]
    /\ wlen = [t \in Threads |-> 0]
    /\ wpos = [t \in Threads |-> 0]
    /\ min_frame_size \in Mins
    /\ frame_uc = 0
    /\ frame_cm = 0
    /\ fl = <<>>
    /\ fout = <<>>
    /\ cctx = CCtxInit
    /\ lock = 0
    /\ held = {}
    /\ rtrace = <<>>
    /\ tpos = 0
    /\ faults = 0
    /\ ncalls = 0
    /\ lockOrder = <<>>
    /\ accepted = <<>>
    /\ callLen = <<>>
    /\ reported = FALSE
    /\ nEndFrame = 0

\* a failure may be injected while the budget lasts
CanFail == faults < MaxFaults


Acquire(r) ==
    /\ held' = held \cup {r}
    /\ rtrace' = Append(rtrace, <<"acq", r>>)

Release(r) ==
    /\ held' = held \ {r}
    /\ rtrace' = Append(rtrace, <<"rel", r>>)

\* --------------------------------------------- nio_archive_writer_open
\* malloc(sizeof(nio_archive_writer_t)), lines 33-39
OpenAllocWriter ==
    /\ mpc = "o_writer"
    /\ \/ /\ Acquire("writer")
          /\ mpc' = "o_cctx"
          /\ UNCHANGED faults
       \/ /\ CanFail
          /\ faults' = faults + 1
          /\ mpc' = "open_failed"
          /\ UNCHANGED resVars
    /\ UNCHANGED <<writerVars, frameVars, min_frame_size, lock, tpos, ghostVars>>

\* ZSTD_createCCtx(), lines 41-46
OpenCreateCCtx ==
    /\ mpc = "o_cctx"
    /\ \/ /\ Acquire("cctx")
          /\ mpc' = "o_level"
          /\ UNCHANGED faults
       \/ /\ CanFail
          /\ faults' = faults + 1
          /\ mpc' = "fail_w_writer"
          /\ UNCHANGED resVars
    /\ UNCHANGED <<writerVars, frameVars, min_frame_size, lock, tpos, ghostVars>>

NextParam(pc) ==
    CASE pc = "o_level" -> "o_strategy"
      [] pc = "o_strategy" -> "o_workers"
      [] pc = "o_workers" -> "o_lock"

\* the three ZSTD_CCtx_setParameter calls, lines 47-71
OpenSetParam ==
    /\ mpc \in {"o_level", "o_strategy", "o_workers"}
    /\ \/ /\ mpc' = NextParam(mpc)
          /\ UNCHANGED faults
       \/ /\ CanFail
          /\ faults' = faults + 1
          /\ mpc' = "fail_w_cctx"
    /\ UNCHANGED <<writerVars, frameVars, min_frame_size, lock, tpos, ghostVars,
                   resVars>>

\* pthread_mutex_init, lines 73-79
OpenMutexInit ==
    /\ mpc = "o_lock"
    /\ \/ /\ Acquire("lock")
          /\ mpc' = "o_fl"
          /\ UNCHANGED faults
       \/ /\ CanFail
          /\ faults' = faults + 1
          /\ mpc' = "fail_w_cctx"
          /\ UNCHANGED resVars
    /\ UNCHANGED <<writerVars, frameVars, min_frame_size, lock, tpos, ghostVars>>

\* ZSTD_seekable_createFrameLog(0), lines 81-87
OpenCreateFrameLog ==
    /\ mpc = "o_fl"
    /\ \/ /\ Acquire("fl")
          /\ mpc' = "o_fout"
          /\ UNCHANGED faults
       \/ /\ CanFail
          /\ faults' = faults + 1
          /\ mpc' = "fail_w_lock"
          /\ UNCHANGED resVars
    /\ UNCHANGED <<writerVars, frameVars, min_frame_size, lock, tpos, ghostVars>>

\* fopen(filename, "wb"), lines 89-97
OpenFile ==
    /\ mpc = "o_fout"
    /\ \/ /\ Acquire("fout")
          /\ mpc' = "ready"
          /\ UNCHANGED faults
       \/ /\ CanFail
          /\ faults' = faults + 1
          /\ mpc' = "fail_w_framelog"
          /\ UNCHANGED resVars
    /\ UNCHANGED <<writerVars, frameVars, min_frame_size, lock, tpos, ghostVars>>

\* the resource released at each label of the cleanup chain, lines 99-106
UnwindRes(pc) ==
    CASE pc = "fail_w_framelog" -> "fl"
      [] pc = "fail_w_lock" -> "lock"
      [] pc = "fail_w_cctx" -> "cctx"
      [] pc = "fail_w_writer" -> "writer"

\* mutant: fail_w_lock jumps over the release of the compression context
UnwindNextSkip(pc) ==
    CASE pc = "fail_w_framelog" -> "fail_w_lock"
      [] pc = "fail_w_lock" -> "fail_w_writer"
      [] pc = "fail_w_cctx" -> "fail_w_writer"
      [] pc = "fail_w_writer" -> "open_failed"

\* the label control falls through to, lines 99-108
UnwindNext(pc) ==
    CASE pc = "fail_w_framelog" -> "fail_w_lock"
      [] pc = "fail_w_lock" -> "fail_w_cctx"
      [] pc = "fail_w_cctx" -> "fail_w_writer"
      [] pc = "fail_w_writer" -> "open_failed"

\* one label of the goto chain: release and fall through, lines 99-108
OpenUnwind ==
    /\ mpc \in {"fail_w_framelog", "fail_w_lock", "fail_w_cctx", "fail_w_writer"}
    /\ Release(UnwindRes(mpc))
    /\ mpc' = UnwindNext(mpc)
    /\ UNCHANGED <<writerVars, frameVars, min_frame_size, lock, tpos, faults,
                   ghostVars>>


\* ------------------------------------------------------------- end_frame
\* end_frame runs in the thread that called it: a writer thread (from
\* nio_archive_write, line 264) or the main thread (from
\* nio_archive_writer_close, line 178).
PcOf(p) == IF p = Main THEN mpc ELSE wpc[p]

SetPc(p, v) ==
    IF p = Main
    THEN mpc' = v /\ UNCHANGED wpc
    ELSE wpc' = [wpc EXCEPT ![p] = v] /\ UNCHANGED mpc

\* mutant: close goes on when its end_frame has failed
EfReturnIgnored(p, ok) ==
    IF p = Main
    THEN "c_alloc"
    ELSE IF ok THEN "alloc" ELSE "fail_w_lock"

\* where the caller continues after end_frame returned ok (lines 178, 264)
EfReturn(p, ok) ==
    IF p = Main
    THEN IF ok THEN "c_alloc" ELSE "close_failed"
    ELSE IF ok THEN "alloc" ELSE "fail_w_lock"

\* malloc(buf_len), lines 120-128
EF_Alloc(p) ==
    /\ PcOf(p) = "ef_alloc"
    /\ \/ /\ SetPc(p, "ef_loop")
          /\ UNCHANGED faults
       \/ /\ CanFail
          /\ faults' = faults + 1
          /\ SetPc(p, EfReturn(p, FALSE))
    /\ UNCHANGED <<wid, wbuf, wlen, wpos, frameVars, min_frame_size, lock,
                   resVars, tpos, ghostVars>>

\* what fwrite(dst, 1, pos, fout) may report as written when it falls short
ShortCounts(n) == {0, n - 1} \cap (0..(n - 1))

\* mutant: the compressor is drained with one call only
DrainOnce(rem) == FALSE

\* the loop condition rem > 0, line 150
DrainMore(rem) == rem > 0

\* one iteration of the drain loop, lines 129-150
EF_Iter(p) ==
    /\ PcOf(p) = "ef_loop"
    /\ \/ /\ CanFail                          \* ZSTD_isError(rem), line 135
          /\ faults' = faults + 1
          /\ SetPc(p, EfReturn(p, FALSE))
          /\ UNCHANGED <<frame_cm, fout, cctx>>
       \/ \E r \in {CompressStream2(cctx, <<>>, "end")} :
          LET pos == SLen(r.out)
          IN /\ cctx' = r.c
             /\ frame_cm' = frame_cm + pos
             /\ \/ /\ fout' = SCat(fout, r.out)
                   /\ SetPc(p, IF DrainMore(r.rem) THEN "ef_loop" ELSE "ef_log")
                   /\ UNCHANGED faults
                \/ /\ CanFail                 \* written < buffout.pos, line 146
                   /\ faults' = faults + 1
                   /\ \E w \in ShortCounts(pos) : fout' = SCat(fout, STake(r.out, w))
                   /\ SetPc(p, EfReturn(p, FALSE))
    /\ UNCHANGED <<wid, wbuf, wlen, wpos, frame_uc, fl, min_frame_size, lock,
                   resVars, tpos, ghostVars>>

\* mutant: the two sizes passed to the frame log in the wrong order
LogFrameSwapped(log, cm, uc) == Append(log, [cm |-> uc, uc |-> cm])

\* ZSTD_seekable_logFrame(fl, frame_cm, frame_uc, 0), line 153
LogFrame(log, cm, uc) == Append(log, [cm |-> cm, uc |-> uc])

\* mutant: the counters of the frame are not reset
ResetCounterKept(c) == c

\* writer->frame_uc = 0; writer->frame_cm = 0, lines 161-162
ResetCounter(c) == 0

\* log the frame and reset the counters, lines 152-165
EF_Log(p) ==
    /\ PcOf(p) = "ef_log"
    /\ \/ /\ fl' = LogFrame(fl, frame_cm, frame_uc)
          /\ frame_uc' = ResetCounter(frame_uc)
          /\ frame_cm' = ResetCounter(frame_cm)
          /\ SetPc(p, EfReturn(p, TRUE))
          /\ UNCHANGED faults
       \/ /\ CanFail                          \* ZSTD_isError(r), line 155
          /\ faults' = faults + 1
          /\ SetPc(p, EfReturn(p, FALSE))
          /\ UNCHANGED <<fl, frame_uc, frame_cm>>
    /\ UNCHANGED <<wid, wbuf, wlen, wpos, fout, cctx, min_frame_size, lock,
                   resVars, tpos, ghostVars>>

\* ------------------------------------------------------ nio_archive_write
\* a thread calls nio_archive_write(writer, buf, len, errbuf) on the open
\* session; the callers pass no write once close has begun, and none once a
\* call has reported failure (the session is unusable from then on).  The
\* threads run the same code and keep nothing between calls, so the next call
\* is given to the lowest-numbered thread that is not inside one.
W_Call(t) ==
    /\ mpc = "ready"
    /\ ~reported
    /\ wpc[t] = "idle"
    /\ \A u \in Threads : u < t => wpc[u] # "idle"
    /\ ncalls < MaxWrites
    /\ \E len \in Lens :
          /\ wid' = [wid EXCEPT ![t] = ncalls + 1]
          /\ wbuf' = [wbuf EXCEPT ![t] = Payload(ncalls + 1, len)]
          /\ wlen' = [wlen EXCEPT ![t] = len]
          /\ wpos' = [wpos EXCEPT ![t] = 0]
          /\ callLen' = Append(callLen, len)
    /\ wpc' = [wpc EXCEPT ![t] = "lock"]
    /\ ncalls' = ncalls + 1
    /\ UNCHANGED <<mpc, frameVars, min_frame_size, lock, resVars, tpos, faults,
                   lockOrder, accepted, reported, nEndFrame>>

\* mutant: the lock excludes nobody
LockFreeAlways(t) == TRUE

\* pthread_mutex_lock blocks while another thread holds the lock, line 253
LockFree(t) == lock = 0

W_Lock(t) ==
    /\ wpc[t] = "lock"
    /\ LockFree(t)
    /\ lock' = t
    /\ wpc' = [wpc EXCEPT ![t] = "check"]
    /\ lockOrder' = Append(lockOrder, wid[t])
    /\ UNCHANGED <<mpc, wid, wbuf, wlen, wpos, frameVars, min_frame_size,
                   resVars, tpos, faults, ncalls, accepted, callLen, reported,
                   nEndFrame>>

\* mutant: a write ends the frame as soon as it holds any byte
FrameFullEarly(uc, minsz) == uc > 0

\* mutant: the threshold must be exceeded, not just reached
FrameFullStrict(uc, minsz) == uc > minsz

\* mutant: the comparison the wrong way round
FrameFullInverted(uc, minsz) == uc <= minsz

\* the frame boundary test, line 260
FrameFull(uc, minsz) == uc >= minsz

W_Check(t) ==
    /\ wpc[t] = "check"
    /\ IF FrameFull(frame_uc, min_frame_size)
       THEN /\ wpc' = [wpc EXCEPT ![t] = "ef_alloc"]
            /\ nEndFrame' = nEndFrame + 1
       ELSE /\ wpc' = [wpc EXCEPT ![t] = "alloc"]
            /\ UNCHANGED nEndFrame
    /\ UNCHANGED <<mpc, wid, wbuf, wlen, wpos, frameVars, min_frame_size, lock,
                   resVars, tpos, faults, ncalls, lockOrder, accepted,
                   callLen, reported>>

\* malloc(bout_len), lines 272-280
W_Alloc(t) ==
    /\ wpc[t] = "alloc"
    /\ \/ /\ wpc' = [wpc EXCEPT ![t] = "loop"]
          /\ UNCHANGED faults
       \/ /\ CanFail
          /\ faults' = faults + 1
          /\ wpc' = [wpc EXCEPT ![t] = "fail_w_lock"]
    /\ UNCHANGED <<mpc, wid, wbuf, wlen, wpos, frameVars, min_frame_size, lock,
                   resVars, tpos, ghostVars>>

\* mutant: the compressor is called once, whatever input it left unread
MoreInputNever(pos, size) == FALSE

\* the loop condition buffin.pos < buffin.size, line 304
MoreInput(pos, size) == pos < size

\* one iteration of the compression loop, lines 281-304
W_Iter(t) ==
    /\ wpc[t] = "loop"
    /\ \/ /\ CanFail                          \* ZSTD_isError(rem), line 287
          /\ faults' = faults + 1
          /\ wpc' = [wpc EXCEPT ![t] = "fail_w_lock"]
          /\ UNCHANGED <<frame_cm, fout, cctx, wpos>>
       \/ \E r \in {CompressStream2(cctx, SDrop(wbuf[t], wpos[t]), "continue")} :
          LET pos == SLen(r.out)
              npos == wlen[t] - SLen(r.inp)
          IN /\ cctx' = r.c
             /\ frame_cm' = frame_cm + pos
             /\ wpos' = [wpos EXCEPT ![t] = npos]
             /\ \/ /\ fout' = SCat(fout, r.out)
                   /\ wpc' = [wpc EXCEPT ![t] =
                                IF MoreInput(npos, wlen[t]) THEN "loop" ELSE "tail"]
                   /\ UNCHANGED faults
                \/ /\ CanFail                 \* written < buffout.pos, line 299
                   /\ faults' = faults + 1
                   /\ \E w \in ShortCounts(pos) : fout' = SCat(fout, STake(r.out, w))
                   /\ wpc' = [wpc EXCEPT ![t] = "fail_w_lock"]
    /\ UNCHANGED <<mpc, wid, wbuf, wlen, frame_uc, fl, min_frame_size, lock,
                   resVars, tpos, ghostVars>>

\* the call returns: its arguments and locals are gone
Return(t) ==
    /\ wpc' = [wpc EXCEPT ![t] = "idle"]
    /\ wid' = [wid EXCEPT ![t] = 0]
    /\ wbuf' = [wbuf EXCEPT ![t] = <<>>]
    /\ wlen' = [wlen EXCEPT ![t] = 0]
    /\ wpos' = [wpos EXCEPT ![t] = 0]

\* mutant: the successful path returns with the lock still taken
UnlockForgotten(l) == l

\* pthread_mutex_unlock on the successful path, line 311
Unlock(l) == 0

\* mutant: the failing path returns with the lock still taken
UnlockOnFailForgotten(l) == l

\* pthread_mutex_unlock on the failing path, label fail_w_lock, line 323
UnlockOnFail(l) == 0

\* frame_uc += len, unlock and return true, lines 306-318
W_Tail(t) ==
    /\ wpc[t] = "tail"
    /\ frame_uc' = frame_uc + wlen[t]
    /\ lock' = Unlock(lock)
    /\ Return(t)
    /\ accepted' = SCat(accepted, wbuf[t])
    /\ UNCHANGED <<mpc, frame_cm, fl, fout, cctx, min_frame_size, resVars, tpos,
                   faults, ncalls, lockOrder, callLen, reported, nEndFrame>>

\* unlock and return false, lines 320-325
W_Fail(t) ==
    /\ wpc[t] = "fail_w_lock"
    /\ lock' = UnlockOnFail(lock)
    /\ Return(t)
    /\ reported' = TRUE
    /\ UNCHANGED <<mpc, frameVars, min_frame_size, resVars, tpos, faults,
                   ncalls, lockOrder, accepted, callLen, nEndFrame>>


\* ----------------------------------------------- nio_archive_writer_close
AllIdle == \A t \in Threads : wpc[t] = "idle"

\* mutant: close never finalizes the frame that is pending
FramePendingNever(uc) == FALSE

\* mutant: close applies the threshold of write to the last frame
FramePendingThreshold(uc) == uc >= min_frame_size

\* the test for a pending frame, line 176
FramePending(uc) == uc > 0

\* close is entered with no write call in flight, on a session no call of
\* which has reported failure; lines 173-183
C_Begin ==
    /\ mpc = "ready"
    /\ AllIdle
    /\ ~reported
    /\ IF FramePending(frame_uc)
       THEN /\ mpc' = "ef_alloc"
            /\ nEndFrame' = nEndFrame + 1
       ELSE /\ mpc' = "c_alloc"
            /\ UNCHANGED nEndFrame
    /\ UNCHANGED <<writerVars, frameVars, min_frame_size, lock, resVars, tpos,
                   faults, ncalls, lockOrder, accepted, callLen, reported>>

\* malloc(buf_len), lines 185-191
C_Alloc ==
    /\ mpc = "c_alloc"
    /\ \/ /\ mpc' = "c_loop"
          /\ UNCHANGED faults
       \/ /\ CanFail
          /\ faults' = faults + 1
          /\ mpc' = "close_failed"
    /\ UNCHANGED <<writerVars, frameVars, min_frame_size, lock, resVars, tpos,
                   ghostVars>>

\* length of the serialised seek table: one token per descriptor and one
\* for the footer
TableLen(log) == Len(log) + 1

\* one iteration of the seek-table loop, lines 195-212; the last iteration
\* also frees the buffer, line 213
C_Iter ==
    /\ mpc = "c_loop"
    /\ \/ /\ CanFail                          \* ZSTD_isError(rem), line 199
          /\ faults' = faults + 1
          /\ mpc' = "close_failed"
          /\ UNCHANGED <<fout, tpos>>
       \/ LET n == Min(SeekBufLen, TableLen(fl) - tpos)
              out == <<Run(TblTag, tpos + 1, tpos + n)>>
              rem == TableLen(fl) - tpos - n
          IN /\ tpos' = tpos + n
             /\ \/ /\ fout' = SCat(fout, out)
                   /\ mpc' = IF rem > 0 THEN "c_loop" ELSE "c_fclose"
                   /\ UNCHANGED faults
                \/ /\ CanFail                 \* written < buffout.pos, line 207
                   /\ faults' = faults + 1
                   /\ \E w \in ShortCounts(n) : fout' = SCat(fout, STake(out, w))
                   /\ mpc' = "close_failed"
    /\ UNCHANGED <<writerVars, frame_uc, frame_cm, fl, cctx, min_frame_size,
                   lock, resVars, ghostVars>>

\* mutant: the lock is destroyed before the frame log is freed
CloseResSwapped(pc) ==
    CASE pc = "c_fclose" -> "fout"
      [] pc = "c_freefl" -> "lock"
      [] pc = "c_destroy" -> "fl"
      [] pc = "c_freecctx" -> "cctx"
      [] pc = "c_free" -> "writer"

\* what each step of the release sequence of close releases, lines 215-245
CloseRes(pc) ==
    CASE pc = "c_fclose" -> "fout"
      [] pc = "c_freefl" -> "fl"
      [] pc = "c_destroy" -> "lock"
      [] pc = "c_freecctx" -> "cctx"
      [] pc = "c_free" -> "writer"

\* fclose(writer->fout), lines 215-219; the stream is gone even when fclose
\* reports EOF
C_Fclose ==
    /\ mpc = "c_fclose"
    /\ Release(CloseRes(mpc))
    /\ \/ /\ mpc' = "c_freefl"
          /\ UNCHANGED faults
       \/ /\ CanFail
          /\ faults' = faults + 1
          /\ mpc' = "close_failed"
    /\ UNCHANGED <<writerVars, frameVars, min_frame_size, lock, tpos, ghostVars>>

\* ZSTD_seekable_freeFrameLog(writer->fl), lines 221-227
C_FreeFrameLog ==
    /\ mpc = "c_freefl"
    /\ \/ /\ Release(CloseRes(mpc))
          /\ mpc' = "c_destroy"
          /\ UNCHANGED faults
       \/ /\ CanFail
          /\ faults' = faults + 1
          /\ mpc' = "close_failed"
          /\ UNCHANGED resVars
    /\ UNCHANGED <<writerVars, frameVars, min_frame_size, lock, tpos, ghostVars>>

\* pthread_mutex_destroy(&writer->lock), lines 229-235
C_DestroyLock ==
    /\ mpc = "c_destroy"
    /\ \/ /\ Release(CloseRes(mpc))
          /\ mpc' = "c_freecctx"
          /\ UNCHANGED faults
       \/ /\ CanFail
          /\ faults' = faults + 1
          /\ mpc' = "close_failed"
          /\ UNCHANGED resVars
    /\ UNCHANGED <<writerVars, frameVars, min_frame_size, lock, tpos, ghostVars>>

\* ZSTD_freeCCtx(writer->cctx), lines 237-243
C_FreeCCtx ==
    /\ mpc = "c_freecctx"
    /\ \/ /\ Release(CloseRes(mpc))
          /\ mpc' = "c_free"
          /\ UNCHANGED faults
       \/ /\ CanFail
          /\ faults' = faults + 1
          /\ mpc' = "close_failed"
          /\ UNCHANGED resVars
    /\ UNCHANGED <<writerVars, frameVars, min_frame_size, lock, tpos, ghostVars>>

\* free(writer); return true, lines 245-247
C_Free ==
    /\ mpc = "c_free"
    /\ Release(CloseRes(mpc))
    /\ mpc' = "closed"
    /\ UNCHANGED <<writerVars, frameVars, min_frame_size, lock, tpos, faults,
                   ghostVars>>

\* ------------------------------------------------------------------ system
Next ==
    \/ OpenAllocWriter
    \/ OpenCreateCCtx
    \/ OpenSetParam
    \/ OpenMutexInit
    \/ OpenCreateFrameLog
    \/ OpenFile
    \/ OpenUnwind
    \/ \E p \in Threads \cup {Main} : EF_Alloc(p)
    \/ \E p \in Threads \cup {Main} : EF_Iter(p)
    \/ \E p \in Threads \cup {Main} : EF_Log(p)
    \/ \E t \in Threads : W_Call(t)
    \/ \E t \in Threads : W_Lock(t)
    \/ \E t \in Threads : W_Check(t)
    \/ \E t \in Threads : W_Alloc(t)
    \/ \E t \in Threads : W_Iter(t)
    \/ \E t \in Threads : W_Tail(t)
    \/ \E t \in Threads : W_Fail(t)
    \/ C_Begin
    \/ C_Alloc
    \/ C_Iter
    \/ C_Fclose
    \/ C_FreeFrameLog
    \/ C_DestroyLock
    \/ C_FreeCCtx
    \/ C_Free

Spec == Init /\ [][Next]_vars

\* a thread inside nio_archive_write and past pthread_mutex_lock runs on
ThreadRun(t) ==
    \/ W_Check(t)
    \/ W_Alloc(t)
    \/ W_Iter(t)
    \/ W_Tail(t)
    \/ W_Fail(t)
    \/ EF_Alloc(t)
    \/ EF_Iter(t)
    \/ EF_Log(t)

\* the thread inside nio_archive_writer_close runs on
CloseRun ==
    \/ EF_Alloc(Main)
    \/ EF_Iter(Main)
    \/ EF_Log(Main)
    \/ C_Alloc
    \/ C_Iter
    \/ C_Fclose
    \/ C_FreeFrameLog
    \/ C_DestroyLock
    \/ C_FreeCCtx
    \/ C_Free

\* Fair scheduling: a thread that can run eventually does, and a thread
\* blocked in pthread_mutex_lock (line 253) eventually gets the lock if the
\* lock is free again and again.  Whether and when the caller calls write
\* or close is left open.
FairSpec ==
    /\ Spec
    /\ \A t \in Threads : WF_vars(ThreadRun(t))
    /\ \A t \in Threads : SF_vars(W_Lock(t))
    /\ WF_vars(CloseRun)


\* ------------------------------------------------- reading the archive back
RECURSIVE SumUC(_)
SumUC(log) == IF log = <<>> THEN 0 ELSE Head(log).uc + SumUC(Tail(log))

RECURSIVE SumCM(_)
SumCM(log) == IF log = <<>> THEN 0 ELSE Head(log).cm + SumCM(Tail(log))

RECURSIVE SumSeq(_)
SumSeq(q) == IF q = <<>> THEN 0 ELSE Head(q) + SumSeq(Tail(q))

\* the payload bytes of a stream, framing bytes left out
RECURSIVE DataOnly(_)
DataOnly(s) ==
    IF s = <<>> THEN <<>>
    ELSE IF Head(s).tag > 0 THEN SCat(<<Head(s)>>, DataOnly(Tail(s)))
    ELSE DataOnly(Tail(s))

\* a complete frame: a header, payload bytes, an end-of-frame marker
WellFormed(f) ==
    /\ Len(f) >= 2
    /\ f[1] = Run(HdrTag, 0, 0)
    /\ f[Len(f)] = Run(EndTag, 0, 0)
    /\ \A i \in 2..(Len(f) - 1) : f[i].tag > 0

\* the bytes of the sink the seek table assigns to frame i: the reader finds
\* them at the offset given by the compressed sizes of the frames before
FrameAt(i) == STake(SDrop(fout, SumCM(SubSeq(fl, 1, i - 1))), fl[i].cm)

\* what a reader decompresses, frame after frame in seek-table order
RECURSIVE DecompressUpTo(_)
DecompressUpTo(n) ==
    IF n = 0 THEN <<>> ELSE SCat(DecompressUpTo(n - 1), DataOnly(FrameAt(n)))

Decompressed == DecompressUpTo(Len(fl))

\* the sink cut after every end-of-frame marker, without looking at the log
RECURSIVE CutFrames(_, _)
CutFrames(s, cur) ==
    IF s = <<>> THEN (IF cur = <<>> THEN <<>> ELSE <<cur>>)
    ELSE IF Head(s).tag = EndTag
         THEN <<SCat(cur, <<Head(s)>>)>> \o CutFrames(Tail(s), <<>>)
         ELSE CutFrames(Tail(s), SCat(cur, <<Head(s)>>))

\* the seek table as serialised from a log
TableBytes(log) == <<Run(TblTag, 1, TableLen(log))>>

\* the sink before and from the first seek-table byte
RECURSIVE BeforeTable(_)
BeforeTable(s) ==
    IF s = <<>> \/ Head(s).tag = TblTag THEN <<>>
    ELSE <<Head(s)>> \o BeforeTable(Tail(s))

FromTable(s) == SubSeq(s, Len(BeforeTable(s)) + 1, Len(s))

\* every write call so far returned success and close, if called, succeeded
NoFailure == faults = 0
ClosedOk == mpc = "closed" /\ NoFailure
\* no call is in flight: every write returned and close has not begun
CallBoundary == mpc = "ready" /\ AllIdle

\* --------------------------------------------------------------- claims
\* C1: after successful writes summing to N and a successful close the
\* uncompressed sizes of the seek table sum to N; at every call boundary
\* before close the logged uncompressed sizes plus frame_uc equal the bytes
\* accepted so far.
C1_UncompressedSizesSumToInput ==
    /\ (ClosedOk => SumUC(fl) = SLen(accepted))
    /\ (ClosedOk => SumUC(fl) = SumSeq(callLen))
    /\ ((CallBoundary /\ NoFailure) => SumUC(fl) + frame_uc = SLen(accepted))

C1_Witness ==
    /\ ClosedOk
    /\ Len(fl) = 2
    /\ SumUC(fl) = 1110
    /\ callLen = <<500, 600, 10>>

\* C2: after successful writes and a successful close, the frames the seek
\* table points at are complete frames holding as many payload bytes as the
\* table says, and their decompressed contents, concatenated in seek-table
\* order, are the write payloads concatenated in call order.
C2_RoundTrip ==
    ClosedOk =>
        /\ \A i \in 1..Len(fl) :
              /\ WellFormed(FrameAt(i))
              /\ SLen(DataOnly(FrameAt(i))) = fl[i].uc
        /\ Decompressed = accepted

C2_Witness ==
    /\ ClosedOk
    /\ Len(fl) = 2
    /\ fl[1].uc = 1100
    /\ Len(Decompressed) = 3
    /\ Len(DataOnly(FrameAt(1))) = 2

\* C3: after successful writes and a successful close the sink is the frames
\* followed by the seek table; cutting the frame bytes at the end-of-frame
\* markers gives as many frames as the log has descriptors, the i-th of
\* compressed_size bytes, so the compressed sizes sum to the offset at which
\* the seek table starts.
C3_CompressedSizesLocateFrames ==
    ClosedOk =>
        LET frames == CutFrames(BeforeTable(fout), <<>>)
        IN /\ FromTable(fout) = TableBytes(fl)
           /\ Len(frames) = Len(fl)
           /\ \A i \in 1..Len(fl) :
                 /\ WellFormed(frames[i])
                 /\ fl[i].cm = SLen(frames[i])
                 /\ FrameAt(i) = frames[i]
           /\ SumCM(fl) = SLen(BeforeTable(fout))
           /\ SumCM(fl) = SLen(fout) - TableLen(fl)

C3_Witness ==
    /\ ClosedOk
    /\ Len(fl) = 3
    /\ \E i \in 1..3 : fl[i].cm > OutSize
    /\ fl[1].cm # fl[2].cm


\* the frames, in seek-table order, that hold the whole payload of call id
FramesHolding(id) ==
    {i \in 1..Len(fl) :
        \E j \in 1..Len(DataOnly(FrameAt(i))) :
            DataOnly(FrameAt(i))[j] = Run(id, 1, callLen[id])}

\* whether a byte of write call id is in stream s
Occurs(id, s) == \E j \in 1..Len(s) : s[j].tag = id

\* C4: a write call enters end_frame exactly when frame_uc >= min_frame_size
\* as it reaches the test, before any of its input is consumed, and at no
\* other point of the call; the payload of a call lies whole in one frame; and
\* min_frame_size 1024 with writes of 500, 600 and 10 bytes, then close,
\* gives the two descriptors 1100 and 10.
C4_ThresholdCheckedOnlyAtStart ==
    /\ [][\A t \in Threads :
            /\ (wpc[t] = "check" /\ wpc'[t] # "check") =>
                  /\ (wpc'[t] = "ef_alloc") <=> (frame_uc >= min_frame_size)
                  /\ (nEndFrame' = nEndFrame + 1) <=> (frame_uc >= min_frame_size)
                  /\ wpc'[t] \in {"ef_alloc", "alloc"}
            /\ (wpc'[t] = "ef_alloc" /\ wpc[t] # "ef_alloc") =>
                  /\ wpc[t] = "check"
                  /\ wpos[t] = 0
                  /\ ~Occurs(wid[t], fout)
                  /\ ~Occurs(wid[t], cctx.cin)
                  /\ ~Occurs(wid[t], cctx.cout)
            /\ (wpc[t] \in {"alloc", "loop", "tail"}) => nEndFrame' = nEndFrame
         ]_vars
    /\ [](ClosedOk =>
            \A id \in 1..ncalls :
                callLen[id] > 0 => Cardinality(FramesHolding(id)) = 1)
    /\ []((ClosedOk /\ min_frame_size = 1024 /\ callLen = <<500, 600, 10>>
                    /\ lockOrder = <<1, 2, 3>>) =>
            fl = <<[cm |-> fl[1].cm, uc |-> 1100], [cm |-> fl[2].cm, uc |-> 10]>>)

C4_Witness ==
    /\ ClosedOk
    /\ min_frame_size = 1024
    /\ callLen = <<500, 600, 10>>
    /\ lockOrder = <<1, 2, 3>>
    /\ Len(fl) = 2
    /\ nEndFrame = 2

\* C5: with min_frame_size = 0, k non-empty write calls and a successful
\* close leave exactly k descriptors in the seek table.
C5_OneFramePerNonEmptyWrite ==
    (ClosedOk /\ min_frame_size = 0 /\ ncalls >= 1
              /\ \A id \in 1..ncalls : callLen[id] > 0)
        => Len(fl) = ncalls

\* C6: when no byte was passed to write, a successful close leaves the frame
\* log empty and no frame bytes in the sink, and end_frame never ran.
C6_NoInputNoFrame ==
    (ClosedOk /\ SumSeq(callLen) = 0)
        => /\ fl = <<>>
           /\ BeforeTable(fout) = <<>>
           /\ nEndFrame = 0

\* C7: when min_frame_size exceeds the total input of at least one byte, no
\* write call finalizes a frame and a successful close leaves one descriptor,
\* whose uncompressed_size is the total input.
C7_LargeThresholdOneFrame ==
    (ClosedOk /\ SumSeq(callLen) >= 1 /\ min_frame_size > SumSeq(callLen))
        => /\ Len(fl) = 1
           /\ fl[1].uc = SumSeq(callLen)
           /\ nEndFrame = 1

C7_Witness ==
    /\ ClosedOk
    /\ min_frame_size = 1024
    /\ ncalls = 3
    /\ SumSeq(callLen) = 1010
    /\ Len(fl) = 1

\* the payloads of the calls listed in order, concatenated
RECURSIVE PayloadsIn(_)
PayloadsIn(order) ==
    IF order = <<>> THEN <<>>
    ELSE SCat(Payload(Head(order), callLen[Head(order)]), PayloadsIn(Tail(order)))

\* C8: when the threads' write calls have all returned success and close
\* succeeded, the uncompressed sizes sum to the payload lengths and the frames
\* decompress to the whole payloads, one after the other in the order in which
\* the calls acquired the lock.
C8_ConcurrentPayloadsWhole ==
    ClosedOk =>
        /\ SumUC(fl) = SumSeq(callLen)
        /\ Len(lockOrder) = ncalls
        /\ Decompressed = PayloadsIn(lockOrder)

C8_Witness ==
    /\ ClosedOk
    /\ lockOrder = <<2, 1, 3>>
    /\ callLen = <<600, 500, 10>>

\* what the compressor holds: input not compressed and output not handed out
Pending(c) == SCat(c.cout, c.cin)

\* C9 as stated: at the return of every successful write and close the
\* compressor holds no pending data.
C9_NothingBufferedAtReturn ==
    ((CallBoundary \/ mpc = "closed") /\ NoFailure) => Pending(cctx) = <<>>

\* C9 amended: the compressor holds nothing once the drain loop of end_frame
\* has finished, and nothing after a successful close; a write call returns
\* with all of its input consumed, and the bytes accepted so far are those in
\* the sink followed by those the compressor still holds.
C9_DrainedWhenFrameEnds ==
    /\ \A p \in Threads \cup {Main} : PcOf(p) = "ef_log" => cctx = CCtxInit
    /\ ClosedOk => Pending(cctx) = <<>>
    /\ \A t \in Threads : wpc[t] = "tail" => wpos[t] = wlen[t]
    /\ (CallBoundary /\ NoFailure) =>
          accepted = SCat(DataOnly(fout), DataOnly(Pending(cctx)))

C9_Witness ==
    /\ \E t \in Threads : wpc[t] = "ef_log"
    /\ frame_cm > OutSize
    /\ NoFailure

\* the resources named by the events of one kind, in trace order
RECURSIVE Events(_, _)
Events(tr, kind) ==
    IF tr = <<>> THEN <<>>
    ELSE IF Head(tr)[1] = kind THEN <<Head(tr)[2]>> \o Events(Tail(tr), kind)
    ELSE Events(Tail(tr), kind)

Reverse(q) == [i \in 1..Len(q) |-> q[Len(q) + 1 - i]]

AcquireOrder == <<"writer", "cctx", "lock", "fl", "fout">>

\* C10: when a step of open fails, open returns no handle and has released
\* exactly the resources it had acquired, once each, in the reverse of the
\* order of acquisition; a handle is returned only with every resource held.
C10_OpenUnwindsInReverse ==
    /\ mpc = "open_failed" =>
          LET acq == Events(rtrace, "acq")
              rel == Events(rtrace, "rel")
          IN /\ held = {}
             /\ rel = Reverse(acq)
             /\ acq = SubSeq(AcquireOrder, 1, Len(acq))
             /\ rtrace = [i \in 1..Len(acq) |-> <<"acq", acq[i]>>]
                         \o [i \in 1..Len(rel) |-> <<"rel", rel[i]>>]
             /\ faults = 1
    /\ mpc = "ready" =>
          /\ rtrace = [i \in 1..5 |-> <<"acq", AcquireOrder[i]>>]
          /\ held = {"writer", "cctx", "lock", "fl", "fout"}

C10_Witness ==
    /\ mpc = "open_failed"
    /\ Events(rtrace, "rel") = <<"fl", "lock", "cctx", "writer">>


\* the seek-table bytes of a stream are all of it from the first one on
OnlyTable(s) == \A j \in 1..Len(s) : s[j].tag = TblTag

\* C11: the seek table is serialised once, by the loop of close, after the
\* last frame has been finalized and logged: nothing but seek-table bytes
\* follows a seek-table byte in the sink, those bytes are the table of the
\* frame log from its first to its last byte, the log is read (and the table
\* written) nowhere but in that loop, the log no longer changes once the
\* table has begun, and descriptors are only ever appended at its end, so the
\* table lists them in the order the frames were finalized.
C11_SeekTableOnceAtEnd ==
    /\ [](OnlyTable(FromTable(fout)))
    /\ [](FromTable(fout) = STake(TableBytes(fl), SLen(FromTable(fout))))
    /\ [](ClosedOk => (FromTable(fout) = TableBytes(fl) /\ tpos = TableLen(fl)))
    /\ []((mpc = "c_loop" /\ NoFailure) =>
             (frame_uc = 0 /\ Pending(cctx) = <<>>
                /\ SumUC(fl) = SLen(accepted)))
    /\ [][(tpos' # tpos \/ FromTable(fout') # FromTable(fout)) =>
             (mpc = "c_loop" /\ fl' = fl)]_vars
    /\ [][(tpos > 0) => (fl' = fl /\ BeforeTable(fout') = BeforeTable(fout))]_vars
    /\ [][fl' # fl => (Len(fl') = Len(fl) + 1 /\ SubSeq(fl', 1, Len(fl)) = fl)]_vars

C11_Witness ==
    /\ ClosedOk
    /\ Len(fl) = 3
    /\ tpos = 4
    /\ fl[2].uc = 500

\* program positions inside nio_archive_writer_close
ClosePcs == {"ef_alloc", "ef_loop", "ef_log", "c_alloc", "c_loop", "c_fclose",
             "c_freefl", "c_destroy", "c_freecctx", "c_free"}

EfPcs == {"ef_alloc", "ef_loop", "ef_log"}

\* C13: whoever executes end_frame, and so resets frame_uc and frame_cm and
\* appends to the frame log, holds the writer lock, whether end_frame was
\* called by write or by close.
C13_EndFrameUnderLock ==
    \A p \in Threads \cup {Main} :
        PcOf(p) \in EfPcs => (p \in Threads /\ lock = p)

\* C14: a descriptor is appended only when the drain loop has finished, and
\* every descriptor of the frame log stands for a frame that is in the sink
\* with all its bytes, as one run from its header to its end-of-frame
\* marker, of the logged compressed size and holding the logged number of
\* uncompressed bytes.
C14_DescriptorOnlyForWrittenFrame ==
    /\ \A p \in Threads \cup {Main} :
          PcOf(p) = "ef_log" => Pending(cctx) = <<>>
    /\ \A i \in 1..Len(fl) :
          /\ WellFormed(FrameAt(i))
          /\ SLen(FrameAt(i)) = fl[i].cm
          /\ SLen(DataOnly(FrameAt(i))) = fl[i].uc

\* C15: a thread holds the lock exactly while it is inside write and past
\* pthread_mutex_lock, and every return of write, successful or failing in
\* end_frame, in the allocation, in the compressor or on a short write,
\* is made by the holder of the lock and leaves the lock free.
C15_WriteReleasesLock ==
    /\ [](\A t \in Threads : (wpc[t] \in {"idle", "lock"}) <=> (lock # t))
    /\ [][\A t \in Threads : (wpc[t] # "idle" /\ wpc'[t] = "idle") =>
                                (lock = t /\ lock' = 0)]_vars

\* a write has returned failure after a short write and the lock is free
C15_Witness ==
    /\ reported
    /\ AllIdle
    /\ lock = 0
    /\ frame_cm + SumCM(fl) > SLen(fout)
    /\ ncalls = 2

\* C16: while end_frame runs, the frame log and frame_uc stay as they are
\* and frame_cm only grows; a failing return leaves them so; the successful
\* return is made after the drain loop, appends the descriptor made of the
\* frame_cm and frame_uc of that moment and sets both counters to zero.
C16_EndFrameOutcome ==
    [][\A p \in Threads \cup {Main} :
          PcOf(p) \in EfPcs =>
             /\ (PcOf(p)' \in EfPcs \cup {EfReturn(p, FALSE)}) =>
                   (fl' = fl /\ frame_uc' = frame_uc /\ frame_cm' >= frame_cm)
             /\ (PcOf(p)' = EfReturn(p, TRUE)) =>
                   /\ PcOf(p) = "ef_log"
                   /\ Pending(cctx) = <<>>
                   /\ fl' = Append(fl, [cm |-> frame_cm, uc |-> frame_uc])
                   /\ frame_uc' = 0
                   /\ frame_cm' = 0
             /\ PcOf(p)' \in EfPcs \cup {EfReturn(p, FALSE), EfReturn(p, TRUE)}]_vars

\* one frame was finalized and logged, the end_frame of a later write failed
\* after it had written: the counters are kept and nothing more is logged
C16_Witness ==
    \E t \in Threads :
        /\ wpc[t] = "fail_w_lock"
        /\ wpos[t] = 0
        /\ min_frame_size = 10
        /\ Len(fl) = 1
        /\ frame_uc = 10
        /\ frame_cm > 0

\* the order in which close releases
ReleaseOrder == <<"fout", "fl", "lock", "cctx", "writer">>

\* C17: a successful close has released every resource open had acquired,
\* each once, the sink first, then the frame log, the lock, the compression
\* context and the writer: the reverse of the order in which open acquired
\* them; nothing is released before close, and nothing is held afterwards.
C17_CloseReleasesInReverse ==
    /\ mpc = "closed" =>
          /\ Events(rtrace, "acq") = AcquireOrder
          /\ Events(rtrace, "rel") = ReleaseOrder
          /\ ReleaseOrder = Reverse(AcquireOrder)
          /\ rtrace = [i \in 1..5 |-> <<"acq", AcquireOrder[i]>>]
                      \o [i \in 1..5 |-> <<"rel", ReleaseOrder[i]>>]
          /\ held = {}
    /\ mpc \in {"c_fclose", "ready"} \cup EfPcs \cup {"c_alloc", "c_loop"} =>
          Events(rtrace, "rel") = <<>>

C17_Witness ==
    /\ mpc = "closed"
    /\ Len(rtrace) = 10
    /\ Len(fl) = 2
    /\ tpos = 3

\* the resources whose release comes after the step of close at pc
LaterRes(pc) ==
    CASE pc \in EfPcs \cup {"c_alloc", "c_loop"} ->
             {"fout", "fl", "lock", "cctx", "writer"}
      [] pc = "c_fclose" -> {"fl", "lock", "cctx", "writer"}
      [] pc = "c_freefl" -> {"lock", "cctx", "writer"}
      [] pc = "c_destroy" -> {"cctx", "writer"}
      [] pc = "c_freecctx" -> {"writer"}
      [] OTHER -> {}

\* C18: a step of close that fails is followed at once by the failing
\* return: no later step is executed, every resource whose release comes
\* after the failing step is still acquired, and when the failing step is
\* inside the final end_frame no seek-table byte is in the sink.  After the
\* failing return nothing is released or written any more.
C18_CloseStopsAtFailure ==
    /\ [][(mpc \in ClosePcs /\ faults' # faults) =>
             /\ mpc' = "close_failed"
             /\ LaterRes(mpc) \subseteq held'
             /\ held' \in {held, held \ {"fout"}}
             /\ (mpc \in EfPcs) => (tpos' = 0 /\ FromTable(fout') = <<>>)]_vars
    /\ [][(mpc = "close_failed") =>
             (mpc' = mpc /\ held' = held /\ fout' = fout /\ fl' = fl)]_vars
    /\ [](mpc = "close_failed" =>
             /\ faults = 1
             /\ "writer" \in held
             /\ Events(rtrace, "rel")
                  = SubSeq(ReleaseOrder, 1, Len(Events(rtrace, "rel"))))
    /\ [](mpc = "closed" => faults = 0)

\* close failed when it destroyed the lock: sink and frame log are released,
\* lock, compression context and writer are not
C18_Witness ==
    /\ mpc = "close_failed"
    /\ Events(rtrace, "rel") = <<"fout", "fl">>
    /\ held = {"lock", "cctx", "writer"}
    /\ tpos = 3

\* the bytes accepted into frame i, by the count of the frame log
FrameInput(i) ==
    STake(SDrop(accepted, SumUC(SubSeq(fl, 1, i - 1))), fl[i].uc)

\* the steps of close after its end_frame, and its two ends
AfterFinalFrame == (ClosePcs \ EfPcs) \cup {"closed", "close_failed"}

\* C19: for a positive threshold every logged frame holds at least one
\* byte and ends with the whole buffer of one write call, of length L, and
\* its uncompressed size is below min_frame_size + L; a descriptor below
\* min_frame_size is the last of the log and was produced by close.
C19_FrameSizeBounds ==
    min_frame_size > 0 =>
        \A i \in 1..Len(fl) :
            LET inp == FrameInput(i)
                last == inp[Len(inp)]
            IN /\ fl[i].uc > 0
               /\ SLen(inp) = fl[i].uc
               /\ last.tag \in 1..ncalls
               /\ last = Run(last.tag, 1, callLen[last.tag])
               /\ fl[i].uc < min_frame_size + callLen[last.tag]
               /\ fl[i].uc < min_frame_size =>
                     (i = Len(fl) /\ mpc \in AfterFinalFrame)

\* a frame ended by a write above the threshold, the last one by close below
C19_Witness ==
    /\ mpc = "closed"
    /\ min_frame_size = 1024
    /\ Len(fl) = 2
    /\ fl[1].uc = 1100
    /\ fl[2].uc = 10

\* C20: at every call boundary, also after a call that failed, frame_cm is
\* the number of bytes of the current frame that are in the sink, so the
\* logged compressed sizes and frame_cm add up to the frame bytes of the sink.
C20_FrameCmCountsSinkBytes ==
    CallBoundary => SumCM(fl) + frame_cm = SLen(BeforeTable(fout))

====
